---------------------------- MODULE Spec2Model ----------------------------
(***************************************************************************)
(* Model of the desktop host's backend supervisor                          *)
(* (src/desktop/src-tauri/src/main.rs): backend resolution, the health     *)
(* probe loop, start_backend, the setup fallback and stop_backend.         *)
(***************************************************************************)
EXTENDS Integers, Sequences, FiniteSets, TLC

VARIABLES
    pc,         \* position of the host's main thread
    env,        \* process environment and filesystem the host runs in
    resolved,   \* result of resolve_backend_command
    max_wait,   \* wait_for_health: the max_wait argument (ms)
    elapsed,    \* wait_for_health: the elapsed local (ms)
    wfh,        \* wait_for_health: return value ("none" while it has not returned)
    probes,     \* wait_for_health: outcomes of the probes issued so far
    slow,       \* how many of those probes took SlowProbeMs to come back
    sb,         \* start_backend: its locals (data_dir, logs_dir, port, api_base, child)
    ret,        \* start_backend: its return value ("none" while it has not returned)
    proc,       \* the OS process of the spawned child
    kills,      \* every child.kill() issued so far, by the function that issued it
    state,      \* the AppState managed by the host ("none" before app.manage)
    exits,      \* Exit events handled so far
    trail,      \* steps of start_backend taken so far, in order
    wfh_base,   \* wait_for_health: the api_base argument
    tpc,        \* position of each execution context that calls stop_backend
    mutex       \* holder of the lock of state.child, 0 when it is free

vars == <<pc, env, resolved, max_wait, elapsed, wfh, probes, slow, sb, ret,
          proc, kills, state, exits, trail, wfh_base, tpc, mutex>>

-----------------------------------------------------------------------------
(* Bounds of the model *)

MaxPort == 2            \* ports the OS may hand out: 1..MaxPort
MaxExits == 3           \* Exit events (stop_backend calls) delivered to the host
MaxWaitUnits == 7       \* wait_for_health alone: max_wait up to this many half steps
MaxSlowProbes == 2      \* probes that may take SlowProbeMs instead of no time
SlowProbeMs == 500      \* duration of a slow probe request
MaxStoppers == 3        \* execution contexts that call stop_backend concurrently

(* Program constants *)

StepMs == 300           \* let step = Duration::from_millis(300)
StartupWaitSecs == 70   \* Duration::from_secs(70)
MaxDepth == 6           \* find_backend_recursive(&resource_dir, 6)

BACKEND_BIN_NAME == "seekjob-backend"

-----------------------------------------------------------------------------
(* Paths are sequences of components; a filesystem is the set of its files, *)
(* the directories being the proper prefixes of the files.                  *)

IsPrefix(p, q) == Len(p) <= Len(q) /\ SubSeq(q, 1, Len(p)) = p

IsProperPrefix(p, q) == Len(p) < Len(q) /\ IsPrefix(p, q)

Join(p, q) == p \o q

Last(p) == p[Len(p)]

IsFile(files, p) == p \in files

IsDir(files, p) == \E f \in files : IsProperPrefix(p, f)

Exists(files, p) == IsFile(files, p) \/ IsDir(files, p)

ReadDir(files, dir) ==
    {SubSeq(f, 1, Len(dir) + 1) : f \in {g \in files : IsProperPrefix(dir, g)}}

ToStringLossy(p) == [str |-> p]


-----------------------------------------------------------------------------
(* resolve_backend_command and find_backend_recursive *)

NoVar == <<"<unset>">>

None == <<>>

ResourceDir == <<"/", "Resources">>

Ok(via, program, args) == [ok |-> TRUE, via |-> via, program |-> program, args |-> args, err |-> <<>>]

Err(e) == [ok |-> FALSE, via |-> "none", program |-> None, args |-> <<>>, err |-> e]

(* the fixed candidates with backend/ tried before backend/dist/ *)
CandidatesSwapped(resource_dir) ==
    << Join(resource_dir, <<BACKEND_BIN_NAME>>),
       Join(resource_dir, <<"backend", BACKEND_BIN_NAME>>),
       Join(resource_dir, <<"backend", "dist", BACKEND_BIN_NAME>>),
       Join(resource_dir, <<"_up_", "backend", "dist", BACKEND_BIN_NAME>>),
       Join(resource_dir, <<"_up_", "_up_", "backend", "dist", BACKEND_BIN_NAME>>) >>

Candidates(resource_dir) ==
    << Join(resource_dir, <<BACKEND_BIN_NAME>>),
       Join(resource_dir, <<"backend", "dist", BACKEND_BIN_NAME>>),
       Join(resource_dir, <<"backend", BACKEND_BIN_NAME>>),
       Join(resource_dir, <<"_up_", "backend", "dist", BACKEND_BIN_NAME>>),
       Join(resource_dir, <<"_up_", "_up_", "backend", "dist", BACKEND_BIN_NAME>>) >>

(* the depth test letting one more level through *)
AtMaxDepthOffByOne(depth, max_depth) == depth > max_depth

AtMaxDepth(depth, max_depth) == depth >= max_depth

(* walk entering the subdirectories before it looks at the files of dir *)
RECURSIVE WalkDirsFirst(_, _, _, _, _)
WalkDirsFirst(files, unreadable, dir, depth, max_depth) ==
    IF dir \in unreadable \/ ~IsDir(files, dir) THEN {}
    ELSE LET paths == ReadDir(files, dir)
             hits == {p \in paths : IsFile(files, p) /\ Last(p) = BACKEND_BIN_NAME}
             below == IF AtMaxDepth(depth, max_depth) THEN {}
                      ELSE UNION {WalkDirsFirst(files, unreadable, p, depth + 1, max_depth) :
                                     p \in {q \in paths : IsDir(files, q)}}
         IN  IF below # {} THEN below ELSE hits

(* walk: the set of paths it may return, one per order in which read_dir may *)
(* list the entries; the empty set when it returns None.                      *)
RECURSIVE Walk(_, _, _, _, _)
Walk(files, unreadable, dir, depth, max_depth) ==
    IF dir \in unreadable \/ ~IsDir(files, dir) THEN {}
    ELSE LET paths == ReadDir(files, dir)
             hits == {p \in paths : IsFile(files, p) /\ Last(p) = BACKEND_BIN_NAME}
         IN  IF hits # {} THEN hits
             ELSE IF AtMaxDepth(depth, max_depth) THEN {}
             ELSE UNION {Walk(files, unreadable, p, depth + 1, max_depth) :
                            p \in {q \in paths : IsDir(files, q)}}

(* the walk started one level short, so that it goes one level deeper *)
FindOneDeeper(files, unreadable, dir, max_depth) ==
    LET found == Walk(files, unreadable, dir, 0, max_depth + 1)
    IN  IF found = {} THEN {None} ELSE found

FindBackendRecursive(files, unreadable, dir, max_depth) ==
    LET found == Walk(files, unreadable, dir, 0, max_depth)
    IN  IF found = {} THEN {None} ELSE found

FirstExisting(files, candidates) ==
    LET hit == {i \in 1..Len(candidates) : Exists(files, candidates[i])}
    IN  IF hit = {} THEN 0 ELSE CHOOSE i \in hit : \A j \in hit : i <= j

(* the override taken whenever the variable is set, its path not looked at *)
OverrideUnchecked(e) == e.vars["SEEKJOB_BACKEND_BIN"] # NoVar

OverrideMatches(e) ==
    LET bin == e.vars["SEEKJOB_BACKEND_BIN"]
    IN  bin # NoVar /\ Exists(e.files, bin)

DevMatches(e) ==
    LET py == e.vars["SEEKJOB_BACKEND_DEV_PYTHON"]
        script == e.vars["SEEKJOB_BACKEND_DEV_SCRIPT"]
    IN  e.debug /\ py # NoVar /\ script # NoVar
            /\ Exists(e.files, py) /\ Exists(e.files, script)

(* found: what find_backend_recursive returns when the code gets to call it *)
ResolveBackendCommand(e, found) ==
    LET bin == e.vars["SEEKJOB_BACKEND_BIN"]
        py == e.vars["SEEKJOB_BACKEND_DEV_PYTHON"]
        script == e.vars["SEEKJOB_BACKEND_DEV_SCRIPT"]
        candidates == Candidates(ResourceDir)
        first == FirstExisting(e.files, candidates)
    IN  IF OverrideMatches(e)
            THEN Ok("override", bin, <<>>)
        ELSE IF DevMatches(e)
            THEN Ok("dev", py, <<ToStringLossy(script)>>)
        ELSE IF ~e.resource_dir_ok
            THEN Err(<<"Cannot resolve Tauri resources dir">>)
        ELSE IF first # 0
            THEN Ok("candidate", candidates[first], <<>>)
        ELSE IF found # None
            THEN Ok("recursive", found, <<>>)
        ELSE Err(<<"Embedded backend binary not found under", ResourceDir,
                   "Expected file name", BACKEND_BIN_NAME>>)

-----------------------------------------------------------------------------
(* resolve_seekjob_data_dir *)

Blank == <<" ">>

Trim(raw) == IF raw = Blank THEN <<>> ELSE raw

AppDataDir == <<"/", "AppData", "SeekJob">>

OkPath(p) == [ok |-> TRUE, path |-> p, err |-> <<>>]

ErrPath(e) == [ok |-> FALSE, path |-> None, err |-> e]

ResolveSeekjobDataDir(e) ==
    LET raw == e.vars["SEEKJOB_DATA_DIR_OVERRIDE"]
        home == e.vars["HOME"]
    IN  IF raw # NoVar /\ Trim(raw) # <<>>
            THEN OkPath(Trim(raw))
        ELSE IF home # NoVar /\ Trim(home) # <<>>
            THEN OkPath(Join(Trim(home), <<"Library", "Application Support", "SeekJob">>))
        ELSE IF e.app_data_dir_ok
            THEN OkPath(AppDataDir)
        ELSE ErrPath(<<"Cannot resolve app data dir">>)

-----------------------------------------------------------------------------
(* Environments *)

VarNames == {"SEEKJOB_BACKEND_BIN", "SEEKJOB_BACKEND_DEV_PYTHON",
             "SEEKJOB_BACKEND_DEV_SCRIPT", "SEEKJOB_DATA_DIR_OVERRIDE", "HOME"}

OverrideBin == <<"/", "opt", "seekjob", "backend-override">>

DevPython == <<"/", "usr", "bin", "python3">>

DevScript == <<"/", "work", "backend", "run.py">>

HomeDir == <<"/", "Users", "u">>

Status == {"unset", "missing", "exists"}

VarOf(status, path) == IF status = "unset" THEN NoVar ELSE path

FileOf(status, path) == IF status = "exists" THEN {path} ELSE {}

Nested(n) == [i \in 1..n |-> "d"] \o <<BACKEND_BIN_NAME>>

(* Places below the resource directory where a file may lie: the five fixed *)
(* candidates, a file inside a directory that has the binary's name, a file  *)
(* in a sibling directory, and files three, MaxDepth and MaxDepth + 1        *)
(* directories down.                                                         *)
TreeSites ==
    {Candidates(<<>>)[i] : i \in 1..5}
        \cup {<<BACKEND_BIN_NAME, BACKEND_BIN_NAME>>, <<"e", BACKEND_BIN_NAME>>,
              Nested(3), Nested(MaxDepth), Nested(MaxDepth + 1)}

Consistent(tree) == \A f \in tree, g \in tree : ~IsProperPrefix(f, g)

Trees == {t \in SUBSET TreeSites : Consistent(t)}

EnvOf(binS, pyS, scriptS, debug, resOk, tree, dataRaw, home, appOk) ==
    [vars |-> [v \in VarNames |->
                 CASE v = "SEEKJOB_BACKEND_BIN" -> VarOf(binS, OverrideBin)
                   [] v = "SEEKJOB_BACKEND_DEV_PYTHON" -> VarOf(pyS, DevPython)
                   [] v = "SEEKJOB_BACKEND_DEV_SCRIPT" -> VarOf(scriptS, DevScript)
                   [] v = "SEEKJOB_DATA_DIR_OVERRIDE" -> dataRaw
                   [] OTHER -> home],
     debug |-> debug,
     resource_dir_ok |-> resOk,
     app_data_dir_ok |-> appOk,
     unreadable |-> {},
     files |-> FileOf(binS, OverrideBin) \cup FileOf(pyS, DevPython)
                 \cup FileOf(scriptS, DevScript)
                 \cup {Join(ResourceDir, f) : f \in tree}]

(* every environment resolve_backend_command is checked in *)
ResolveEnvs ==
    {EnvOf(b, p, s, d, r, t, NoVar, HomeDir, TRUE) :
        b \in Status, p \in Status, s \in Status, d \in BOOLEAN, r \in BOOLEAN, t \in Trees}

(* the environments the whole host is run in *)
HostEnvs ==
    {EnvOf(b, "unset", "unset", FALSE, r, t, NoVar, h, FALSE) :
        b \in {"unset", "exists"}, r \in BOOLEAN,
        t \in {{}, {Candidates(<<>>)[2]}, {Nested(MaxDepth + 1)}}, h \in {HomeDir, Blank}}

-----------------------------------------------------------------------------
(* Values of the state *)

Ports == 1..MaxPort

ApiBase(port) == <<"http://127.0.0.1:", port, "/api">>

U16ToString(n) == <<"decimal", n>>

NoState == [managed |-> FALSE, api_base |-> <<>>, data_dir |-> None,
            logs_dir |-> None, child |-> "None"]

AppState(api_base, data_dir, logs_dir, child) ==
    [managed |-> TRUE, api_base |-> api_base, data_dir |-> data_dir,
     logs_dir |-> logs_dir, child |-> child]

NoRet == [returned |-> FALSE, ok |-> FALSE, err |-> <<>>, state |-> NoState]

RetOk(st) == [returned |-> TRUE, ok |-> TRUE, err |-> <<>>, state |-> st]

RetErr(e) == [returned |-> TRUE, ok |-> FALSE, err |-> e, state |-> NoState]

NoLocals == [data_dir |-> None, logs_dir |-> None, port |-> 0, api_base |-> <<>>,
             child |-> "None", child_env |-> <<>>, made |-> {}, sinks |-> {}]

NoResolved == Err(<<>>)

(* format!("{api_base}/health") *)
HealthUrl(base) == <<base, "/health">>

NoProbes == [n |-> 0, last |-> "none", seen200 |-> FALSE, url |-> <<>>]

ProbeOutcomes == {"200", "other_status", "error_status", "transport_error"}

-----------------------------------------------------------------------------
(* wait_for_health *)

WfhEnter ==
    /\ pc = "wfh_call"
    /\ elapsed' = 0
    /\ pc' = "wfh_test"
    /\ UNCHANGED <<env, resolved, max_wait, wfh, probes, slow, sb, ret, proc,
                   kills, state, exits, trail>>
    /\ UNCHANGED <<wfh_base, tpc, mutex>>

(* a loop test that lets the bound itself through *)
LoopContinuesInclusive(e, m) == e <= m

LoopContinues(e, m) == e < m

WfhTest ==
    /\ pc = "wfh_test"
    /\ IF LoopContinues(elapsed, max_wait)
          THEN /\ pc' = "wfh_probe"
               /\ wfh' = wfh
          ELSE /\ pc' = "wfh_ret"
               /\ wfh' = "false"
    /\ UNCHANGED <<env, resolved, max_wait, elapsed, probes, slow, sb, ret, proc,
                   kills, state, exits, trail>>
    /\ UNCHANGED <<wfh_base, tpc, mutex>>

(* any response that is not an error taken for readiness *)
ProbeSucceedsAnyOk(outcome) == outcome \in {"200", "other_status"}

ProbeSucceeds(outcome) == outcome = "200"

WfhProbe ==
    /\ pc = "wfh_probe"
    /\ \E outcome \in ProbeOutcomes, d \in 0..1 :
          /\ slow + d <= MaxSlowProbes
          /\ slow' = slow + d
          /\ probes' = [n |-> probes.n + 1, last |-> outcome,
                        seen200 |-> probes.seen200 \/ outcome = "200",
                        url |-> HealthUrl(wfh_base)]
          /\ IF ProbeSucceeds(outcome)
                THEN /\ pc' = "wfh_ret"
                     /\ wfh' = "true"
                ELSE /\ pc' = "wfh_sleep"
                     /\ wfh' = wfh
    /\ UNCHANGED <<env, resolved, max_wait, elapsed, sb, ret, proc, kills, state,
                   exits, trail>>
    /\ UNCHANGED <<wfh_base, tpc, mutex>>

WfhSleep ==
    /\ pc = "wfh_sleep"
    /\ elapsed' = elapsed + StepMs
    /\ probes' = [probes EXCEPT !.last = "none"]
    /\ pc' = "wfh_test"
    /\ UNCHANGED <<env, resolved, max_wait, wfh, slow, sb, ret, proc, kills, state,
                   exits, trail>>
    /\ UNCHANGED <<wfh_base, tpc, mutex>>

(* real time spent in wait_for_health so far: the sleeps and the slow requests *)
Clock == elapsed + slow * SlowProbeMs

-----------------------------------------------------------------------------
(* resolve_backend_command *)

ResolveBackend ==
    /\ pc = "resolve"
    /\ \E found \in FindBackendRecursive(env.files, env.unreadable, ResourceDir, MaxDepth) :
          resolved' = ResolveBackendCommand(env, found)
    /\ pc' = "resolved"
    /\ UNCHANGED <<env, max_wait, elapsed, wfh, probes, slow, sb, ret, proc, kills,
                   state, exits, trail>>
    /\ UNCHANGED <<wfh_base, tpc, mutex>>

-----------------------------------------------------------------------------
(* start_backend, one action per statement that can fail or that acts on the *)
(* child. A failing statement returns its error to setup.                     *)

Return(r) ==
    /\ ret' = r
    /\ pc' = "setup_match"

Setup ==
    /\ pc = "setup"
    /\ pc' = "sb_data_dir"
    /\ UNCHANGED <<env, resolved, max_wait, elapsed, wfh, probes, slow, sb, ret,
                   proc, kills, state, exits, trail>>
    /\ UNCHANGED <<wfh_base, tpc, mutex>>

SbResolveDataDir ==
    /\ pc = "sb_data_dir"
    /\ LET r == ResolveSeekjobDataDir(env)
       IN  IF r.ok
              THEN /\ sb' = [sb EXCEPT !.data_dir = r.path]
                   /\ pc' = "sb_create_data_dir"
                   /\ ret' = ret
              ELSE /\ Return(RetErr(r.err))
                   /\ sb' = sb
    /\ trail' = Append(trail, "resolve_data_dir")
    /\ UNCHANGED <<env, resolved, max_wait, elapsed, wfh, probes, slow, proc,
                   kills, state, exits>>
    /\ UNCHANGED <<wfh_base, tpc, mutex>>

SbCreateDataDir ==
    /\ pc = "sb_create_data_dir"
    /\ \E created \in BOOLEAN :
          IF created
             THEN /\ sb' = [sb EXCEPT !.made = @ \cup {sb.data_dir}]
                  /\ pc' = "sb_create_logs_dir"
                  /\ ret' = ret
             ELSE /\ Return(RetErr(<<"Cannot create app data dir">>))
                  /\ sb' = sb
    /\ trail' = Append(trail, "create_data_dir")
    /\ UNCHANGED <<env, resolved, max_wait, elapsed, wfh, probes, slow, proc,
                   kills, state, exits>>
    /\ UNCHANGED <<wfh_base, tpc, mutex>>

SbCreateLogsDir ==
    /\ pc = "sb_create_logs_dir"
    /\ \E created \in BOOLEAN :
          IF created
             THEN /\ sb' = [sb EXCEPT !.logs_dir = Join(sb.data_dir, <<"logs">>),
                                      !.made = @ \cup {Join(sb.data_dir, <<"logs">>)}]
                  /\ pc' = "sb_reserve_port"
                  /\ ret' = ret
             ELSE /\ Return(RetErr(<<"Cannot create logs dir">>))
                  /\ sb' = [sb EXCEPT !.logs_dir = Join(sb.data_dir, <<"logs">>)]
    /\ trail' = Append(trail, "create_logs_dir")
    /\ UNCHANGED <<env, resolved, max_wait, elapsed, wfh, probes, slow, proc,
                   kills, state, exits>>
    /\ UNCHANGED <<wfh_base, tpc, mutex>>

(* reserve_port: the port the OS assigned, or 0 when the bind or the read-back fails *)
SbReservePort ==
    /\ pc = "sb_reserve_port"
    /\ \E port \in Ports \cup {0} :
          IF port # 0
             THEN /\ sb' = [sb EXCEPT !.port = port, !.api_base = ApiBase(port)]
                  /\ pc' = "resolve"
                  /\ ret' = ret
             ELSE /\ Return(RetErr(<<"Cannot reserve local port">>))
                  /\ sb' = sb
    /\ trail' = Append(trail, "reserve_port")
    /\ UNCHANGED <<env, resolved, max_wait, elapsed, wfh, probes, slow, proc,
                   kills, state, exits>>
    /\ UNCHANGED <<wfh_base, tpc, mutex>>

SbAfterResolve ==
    /\ pc = "resolved"
    /\ IF resolved.ok
          THEN /\ pc' = "sb_open_stdout"
               /\ ret' = ret
          ELSE Return(RetErr(resolved.err))
    /\ trail' = Append(trail, "resolve_backend")
    /\ UNCHANGED <<env, resolved, max_wait, elapsed, wfh, probes, slow, sb, proc,
                   kills, state, exits>>
    /\ UNCHANGED <<wfh_base, tpc, mutex>>

SbOpenStdout ==
    /\ pc = "sb_open_stdout"
    /\ \E opened \in BOOLEAN :
          IF opened
             THEN /\ sb' = [sb EXCEPT !.sinks = @ \cup {Join(sb.logs_dir, <<"backend.stdout.log">>)}]
                  /\ pc' = "sb_open_stderr"
                  /\ ret' = ret
             ELSE /\ Return(RetErr(<<"Cannot open backend stdout log">>))
                  /\ sb' = sb
    /\ trail' = Append(trail, "open_stdout")
    /\ UNCHANGED <<env, resolved, max_wait, elapsed, wfh, probes, slow, proc,
                   kills, state, exits>>
    /\ UNCHANGED <<wfh_base, tpc, mutex>>

(* a failure to open the stderr log passed over *)
SbOpenStderrLenient ==
    /\ pc = "sb_open_stderr"
    /\ \E opened \in BOOLEAN :
          /\ sb' = IF opened
                      THEN [sb EXCEPT !.sinks = @ \cup {Join(sb.logs_dir, <<"backend.stderr.log">>)}]
                      ELSE sb
          /\ pc' = "sb_spawn"
    /\ trail' = Append(trail, "open_stderr")
    /\ UNCHANGED <<env, resolved, max_wait, elapsed, wfh, probes, slow, ret, proc,
                   kills, state, exits>>
    /\ UNCHANGED <<wfh_base, tpc, mutex>>

SbOpenStderr ==
    /\ pc = "sb_open_stderr"
    /\ \E opened \in BOOLEAN :
          IF opened
             THEN /\ sb' = [sb EXCEPT !.sinks = @ \cup {Join(sb.logs_dir, <<"backend.stderr.log">>)}]
                  /\ pc' = "sb_spawn"
                  /\ ret' = ret
             ELSE /\ Return(RetErr(<<"Cannot open backend stderr log">>))
                  /\ sb' = sb
    /\ trail' = Append(trail, "open_stderr")
    /\ UNCHANGED <<env, resolved, max_wait, elapsed, wfh, probes, slow, proc,
                   kills, state, exits>>
    /\ UNCHANGED <<wfh_base, tpc, mutex>>

(* only one of the two aliases carries the reserved port *)
ChildEnvOneAlias(port, data_dir) ==
    [SEEKJOB_PORT |-> U16ToString(port),
     PORT |-> U16ToString(0),
     SEEKJOB_DATA_DIR |-> ToStringLossy(data_dir),
     DATABASE_URL |-> <<"sqlite:///", ToStringLossy(Join(data_dir, <<"app.db">>))>>]

ChildEnv(port, data_dir) ==
    [SEEKJOB_PORT |-> U16ToString(port),
     PORT |-> U16ToString(port),
     SEEKJOB_DATA_DIR |-> ToStringLossy(data_dir),
     DATABASE_URL |-> <<"sqlite:///", ToStringLossy(Join(data_dir, <<"app.db">>))>>]

(* a failed spawn tried again *)
SbSpawnRetries ==
    /\ pc = "sb_spawn"
    /\ \E spawned \in BOOLEAN :
          IF spawned
             THEN /\ proc' = "running"
                  /\ sb' = [sb EXCEPT !.child = "Some",
                                      !.child_env = ChildEnv(sb.port, sb.data_dir)]
                  /\ max_wait' = StartupWaitSecs * 1000
                  /\ wfh_base' = sb.api_base
                  /\ pc' = "wfh_call"
             ELSE UNCHANGED <<pc, proc, sb, max_wait, wfh_base>>
    /\ trail' = Append(trail, "spawn")
    /\ UNCHANGED <<env, resolved, elapsed, wfh, probes, slow, kills, state, exits, ret>>
    /\ UNCHANGED <<tpc, mutex>>

(* spawn, then the call of wait_for_health(&api_base, Duration::from_secs(70)) *)
SbSpawn ==
    /\ pc = "sb_spawn"
    /\ \E spawned \in BOOLEAN :
          IF spawned
             THEN /\ proc' = "running"
                  /\ sb' = [sb EXCEPT !.child = "Some",
                                      !.child_env = ChildEnv(sb.port, sb.data_dir)]
                  /\ max_wait' = StartupWaitSecs * 1000
                  /\ wfh_base' = sb.api_base
                  /\ pc' = "wfh_call"
                  /\ ret' = ret
             ELSE /\ Return(RetErr(<<"Cannot spawn backend process", resolved.program>>))
                  /\ UNCHANGED <<proc, sb, max_wait, wfh_base>>
    /\ trail' = Append(trail, "spawn")
    /\ UNCHANGED <<env, resolved, elapsed, wfh, probes, slow, kills, state, exits>>
    /\ UNCHANGED <<tpc, mutex>>

(* the kill left out *)
KillDropped(p) == p

(* child.kill(): a running process is terminated, any error is dropped *)
Kill(p) == IF p = "running" THEN "killed" ELSE p

(* the result of wait_for_health not looked at *)
ProbeFailedNever(result) == FALSE

ProbeFailed(result) == result = "false"

SbAfterHealth ==
    /\ pc = "wfh_ret"
    /\ IF ProbeFailed(wfh)
          THEN /\ pc' = "sb_kill"
               /\ ret' = ret
          ELSE Return(RetOk(AppState(sb.api_base, sb.data_dir, sb.logs_dir, sb.child)))
    /\ trail' = Append(trail, "wait_for_health")
    /\ UNCHANGED <<env, resolved, max_wait, elapsed, wfh, probes, slow, sb, proc,
                   kills, state, exits>>
    /\ UNCHANGED <<wfh_base, tpc, mutex>>

SbKill ==
    /\ pc = "sb_kill"
    /\ proc' = Kill(proc)
    /\ kills' = Append(kills, "start_backend")
    /\ pc' = "sb_timeout"
    /\ trail' = Append(trail, "kill")
    /\ UNCHANGED <<env, resolved, max_wait, elapsed, wfh, probes, slow, sb, ret,
                   state, exits>>
    /\ UNCHANGED <<wfh_base, tpc, mutex>>

SbTimeout ==
    /\ pc = "sb_timeout"
    /\ Return(RetErr(<<"Backend process started but /api/health did not become ready in time">>))
    /\ UNCHANGED <<env, resolved, max_wait, elapsed, wfh, probes, slow, sb, proc,
                   kills, state, exits, trail>>
    /\ UNCHANGED <<wfh_base, tpc, mutex>>

-----------------------------------------------------------------------------
(* main: the setup hook, and the run callback's Exit arm with stop_backend *)

PlaceholderApiBase == <<"http://127.0.0.1:", 0, "/api">>

UnwrapOr(r, default) == IF r.ok THEN r.path ELSE default

(* the fallback state built from start_backend's own api_base *)
DegradedStateLive(e) ==
    LET data_dir == UnwrapOr(ResolveSeekjobDataDir(e), <<".">>)
    IN  AppState(sb.api_base, data_dir, Join(data_dir, <<"logs">>), "None")

DegradedState(e) ==
    LET data_dir == UnwrapOr(ResolveSeekjobDataDir(e), <<".">>)
    IN  AppState(PlaceholderApiBase, data_dir, Join(data_dir, <<"logs">>), "None")

(* the fallback state holding on to the child start_backend spawned *)
SetupStateKeepsChild(r, e) ==
    IF r.ok THEN r.state ELSE [DegradedState(e) EXCEPT !.child = sb.child]

SetupState(r, e) == IF r.ok THEN r.state ELSE DegradedState(e)

(* the host given up when the resource directory could not be resolved *)
AfterSetupAborts(r) ==
    IF ~r.ok /\ r.err = <<"Cannot resolve Tauri resources dir">> THEN "aborted" ELSE "run"

(* a failed start tried again *)
AfterSetupRetries(r) == IF r.ok THEN "run" ELSE "sb_data_dir"

AfterSetup(r) == "run"

SetupManage ==
    /\ pc = "setup_match"
    /\ state' = SetupState(ret, env)
    /\ pc' = AfterSetup(ret)
    /\ UNCHANGED <<env, resolved, max_wait, elapsed, wfh, probes, slow, sb, ret,
                   proc, kills, exits, trail>>
    /\ UNCHANGED <<wfh_base, tpc, mutex>>

(* stop_backend, under the lock of state.child for its whole body *)
(* stop_backend clearing the handle without killing *)
StopNeverKills(st) == FALSE

StopKills(st) == st.child # "None"

(* stop_backend leaving the handle in place *)
StopKeepsHandle(st) == st

StopClears(st) == [st EXCEPT !.child = "None"]

ExitEvent ==
    /\ pc = "run"
    /\ exits < MaxExits
    /\ exits' = exits + 1
    /\ IF state.managed
          THEN /\ proc' = IF StopKills(state) THEN Kill(proc) ELSE proc
               /\ kills' = IF StopKills(state) THEN Append(kills, "stop_backend") ELSE kills
               /\ state' = StopClears(state)
          ELSE UNCHANGED <<proc, kills, state>>
    /\ UNCHANGED <<pc, env, resolved, max_wait, elapsed, wfh, probes, slow, sb, ret,
                   trail>>
    /\ UNCHANGED <<wfh_base, tpc, mutex>>

(* the child may exit by itself at any time *)
ChildExits ==
    /\ proc = "running"
    /\ proc' = "exited"
    /\ UNCHANGED <<pc, env, resolved, max_wait, elapsed, wfh, probes, slow, sb, ret,
                   kills, state, exits, trail>>
    /\ UNCHANGED <<wfh_base, tpc, mutex>>

-----------------------------------------------------------------------------
(* Specifications *)

Stoppers == 1..MaxStoppers

Quiet ==
    /\ resolved = NoResolved
    /\ max_wait = 0
    /\ elapsed = 0
    /\ wfh = "none"
    /\ probes = NoProbes
    /\ slow = 0
    /\ sb = NoLocals
    /\ ret = NoRet
    /\ proc = "none"
    /\ kills = <<>>
    /\ state = NoState
    /\ exits = 0
    /\ trail = <<>>
    /\ wfh_base = IF pc = "wfh_call" THEN ApiBase(1) ELSE <<>>
    /\ tpc = [t \in Stoppers |-> "idle"]
    /\ mutex = 0

(* the host, from process start to the Exit events *)
Init ==
    /\ pc = "setup"
    /\ env \in HostEnvs
    /\ Quiet

Next ==
    \/ Setup
    \/ SbResolveDataDir
    \/ SbCreateDataDir
    \/ SbCreateLogsDir
    \/ SbReservePort
    \/ ResolveBackend
    \/ SbAfterResolve
    \/ SbOpenStdout
    \/ SbOpenStderr
    \/ SbSpawn
    \/ WfhEnter
    \/ WfhTest
    \/ WfhProbe
    \/ WfhSleep
    \/ SbAfterHealth
    \/ SbKill
    \/ SbTimeout
    \/ SetupManage
    \/ ExitEvent
    \/ ChildExits

Spec == Init /\ [][Next]_vars

(* wait_for_health called on its own, for a range of max_wait *)
MaxWaits == {n * (StepMs \div 2) : n \in 0..MaxWaitUnits} \cup {StartupWaitSecs * 1000}

InitHealth ==
    /\ pc = "wfh_call"
    /\ env = EnvOf("unset", "unset", "unset", FALSE, TRUE, {}, NoVar, HomeDir, TRUE)
    /\ resolved = NoResolved
    /\ max_wait \in MaxWaits
    /\ elapsed = 0
    /\ wfh = "none"
    /\ probes = NoProbes
    /\ slow = 0
    /\ sb = NoLocals
    /\ ret = NoRet
    /\ proc = "none"
    /\ kills = <<>>
    /\ state = NoState
    /\ exits = 0
    /\ trail = <<>>
    /\ wfh_base = IF pc = "wfh_call" THEN ApiBase(1) ELSE <<>>
    /\ tpc = [t \in Stoppers |-> "idle"]
    /\ mutex = 0

NextHealth ==
    \/ WfhEnter
    \/ WfhTest
    \/ WfhProbe
    \/ WfhSleep

SpecHealth == InitHealth /\ [][NextHealth]_vars

(* the loop is sequential code and every probe request returns, so a step *)
(* that can be taken is taken                                             *)
SpecHealthFair == InitHealth /\ [][NextHealth]_vars /\ WF_vars(NextHealth)

(* resolve_backend_command called on its own, in every environment *)
InitResolve ==
    /\ pc = "resolve"
    /\ env \in ResolveEnvs
    /\ Quiet

NextResolve == ResolveBackend

SpecResolve == InitResolve /\ [][NextResolve]_vars

(* stop_backend called from several execution contexts at once, one action *)
(* per statement, on the state a successful or a failed start left behind   *)

(* a lock that does not exclude *)
CanLockAlways(m) == TRUE

CanLock(m) == m = 0

StopLock(t) ==
    /\ tpc[t] = "idle"
    /\ CanLock(mutex)
    /\ mutex' = t
    /\ tpc' = [tpc EXCEPT ![t] = "locked"]
    /\ UNCHANGED <<pc, env, resolved, max_wait, elapsed, wfh, probes, slow, sb, ret,
                   proc, kills, state, exits, trail, wfh_base>>

StopKill(t) ==
    /\ tpc[t] = "locked"
    /\ proc' = IF StopKills(state) THEN Kill(proc) ELSE proc
    /\ kills' = IF StopKills(state) THEN Append(kills, "stop_backend") ELSE kills
    /\ tpc' = [tpc EXCEPT ![t] = "killed"]
    /\ UNCHANGED <<pc, env, resolved, max_wait, elapsed, wfh, probes, slow, sb, ret,
                   state, exits, trail, wfh_base, mutex>>

StopClear(t) ==
    /\ tpc[t] = "killed"
    /\ state' = StopClears(state)
    /\ tpc' = [tpc EXCEPT ![t] = "cleared"]
    /\ UNCHANGED <<pc, env, resolved, max_wait, elapsed, wfh, probes, slow, sb, ret,
                   proc, kills, exits, trail, wfh_base, mutex>>

StopUnlock(t) ==
    /\ tpc[t] = "cleared"
    /\ mutex' = IF mutex = t THEN 0 ELSE mutex
    /\ tpc' = [tpc EXCEPT ![t] = "done"]
    /\ UNCHANGED <<pc, env, resolved, max_wait, elapsed, wfh, probes, slow, sb, ret,
                   proc, kills, state, exits, trail, wfh_base>>

StopLocks == \E t \in Stoppers : StopLock(t)

StopKillsChild == \E t \in Stoppers : StopKill(t)

StopClearsHandle == \E t \in Stoppers : StopClear(t)

StopUnlocks == \E t \in Stoppers : StopUnlock(t)

LeftByStart ==
    {<<AppState(ApiBase(1), AppDataDir, Join(AppDataDir, <<"logs">>), "Some"), "running">>,
     <<AppState(PlaceholderApiBase, AppDataDir, Join(AppDataDir, <<"logs">>), "None"), "none">>,
     <<AppState(PlaceholderApiBase, AppDataDir, Join(AppDataDir, <<"logs">>), "None"), "killed">>}

InitStop ==
    /\ pc = "run"
    /\ env = EnvOf("unset", "unset", "unset", FALSE, TRUE, {}, NoVar, Blank, TRUE)
    /\ resolved = NoResolved
    /\ max_wait = 0
    /\ elapsed = 0
    /\ wfh = "none"
    /\ probes = NoProbes
    /\ slow = 0
    /\ sb = NoLocals
    /\ ret = NoRet
    /\ \E left \in LeftByStart : state = left[1] /\ proc = left[2]
    /\ kills = <<>>
    /\ exits = 0
    /\ trail = <<>>
    /\ wfh_base = <<>>
    /\ tpc = [t \in Stoppers |-> "idle"]
    /\ mutex = 0

NextStop ==
    \/ StopLocks
    \/ StopKillsChild
    \/ StopClearsHandle
    \/ StopUnlocks
    \/ ChildExits

SpecStop == InitStop /\ [][NextStop]_vars

-----------------------------------------------------------------------------
(* Properties of the host (Spec) *)

ReadinessTimeout ==
    RetErr(<<"Backend process started but /api/health did not become ready in time">>)

Spawned == sb.child = "Some"

(* C1: when start_backend has spawned the child and wait_for_health returned *)
(* false, then by the time start_backend has returned the kill was issued by  *)
(* start_backend, the return value is the readiness-timeout error and the     *)
(* process is not running.                                                    *)
C1_TimeoutKillsChild ==
    (Spawned /\ wfh = "false" /\ ret.returned) =>
        /\ kills = <<"start_backend">>
        /\ ret = ReadinessTimeout
        /\ proc # "running"

C1_Witness ==
    /\ Spawned /\ wfh = "false" /\ ret.returned
    /\ proc = "killed"
    /\ pc = "setup_match"

(* C2: whatever the outcome of startup, once an Exit event has been handled *)
(* no spawned child process is running.                                      *)
C2_NoChildAfterExit == exits > 0 => proc # "running"

C2_Witness ==
    /\ exits = 1
    /\ ret.ok
    /\ proc = "killed"
    /\ kills = <<"stop_backend">>

(* C3: stop_backend is idempotent: every call leaves the shared handle None, *)
(* and every call after the first issues no kill and changes nothing of the  *)
(* managed state or of the process.                                          *)
C3_StopIdempotent ==
    [][exits' > exits =>
          /\ state'.child = "None"
          /\ exits >= 1 => (state' = state /\ kills' = kills /\ proc' = proc)]_vars

C3_Witness ==
    /\ exits >= 2
    /\ kills = <<"stop_backend">>
    /\ proc = "exited"
    /\ state.child = "None"

(* C4: a spawned child gets exactly one kill: from start_backend when the   *)
(* start failed after the spawn (stop_backend then issues none), from        *)
(* stop_backend when the start succeeded and the host has handled an Exit;   *)
(* never more than one, and none when nothing was spawned.                   *)
C4_KilledExactlyOnce ==
    /\ Len(kills) <= 1
    /\ ~Spawned => kills = <<>>
    /\ (Spawned /\ ret.returned /\ ~ret.ok) => kills = <<"start_backend">>
    /\ (Spawned /\ ret.ok /\ exits >= 1) => kills = <<"stop_backend">>
    /\ (Spawned /\ ret.ok /\ exits = 0) => kills = <<>>

C4_Witness ==
    /\ Spawned
    /\ ~ret.ok
    /\ exits >= 2
    /\ kills = <<"start_backend">>

(* the orchestrator's state, read off the host's position *)
Lifecycle ==
    IF exits > 0 THEN "Stopped"
    ELSE IF pc = "setup" THEN "NotStarted"
    ELSE IF pc \in {"setup_match", "run"} THEN (IF ret.ok THEN "Ready" ELSE "Failed")
    ELSE "Starting"

LifecycleSteps ==
    {<<"NotStarted", "Starting">>, <<"Starting", "Ready">>, <<"Starting", "Failed">>,
     <<"Ready", "Stopped">>, <<"Failed", "Stopped">>}

(* C5: the lifecycle moves only along NotStarted -> Starting, Starting ->   *)
(* Ready, Starting -> Failed, Ready -> Stopped, Failed -> Stopped; once      *)
(* Stopped it stays Stopped and no step of start_backend is taken again.     *)
C5_LifecycleTransitions ==
    [][/\ Lifecycle' # Lifecycle => <<Lifecycle, Lifecycle'>> \in LifecycleSteps
       /\ Lifecycle = "Stopped" => (pc' = "run" /\ trail' = trail /\ ret' = ret)]_vars

C5_Witness ==
    /\ Lifecycle = "Stopped"
    /\ ret.ok
    /\ exits >= 2

(* C6: whenever start_backend returned an error, the setup hook goes on to  *)
(* manage a state whose api_base is the placeholder and whose child is None, *)
(* and the host runs.                                                        *)
C6_DegradedState ==
    (ret.returned /\ ~ret.ok) =>
        \/ pc = "setup_match" /\ ENABLED SetupManage
        \/ /\ pc = "run"
           /\ state.managed
           /\ state.api_base = PlaceholderApiBase
           /\ state.child = "None"

C6_Witness ==
    /\ pc = "run"
    /\ ret = ReadinessTimeout
    /\ state.managed
    /\ state.api_base = PlaceholderApiBase
    /\ sb.api_base # PlaceholderApiBase

-----------------------------------------------------------------------------
(* Properties of wait_for_health (SpecHealth) *)

FailedOutcomes == ProbeOutcomes \ {"200"}

(* C7: wait_for_health returns true exactly when a probe got status 200, and *)
(* every probe is issued while elapsed < max_wait; it returns false only     *)
(* with elapsed >= max_wait. A probe with any other outcome does not end the *)
(* loop: it is followed by the sleep, which adds 300 ms to elapsed, and by   *)
(* the loop test, which issues the next probe while elapsed < max_wait.      *)
C7_HealthResult ==
    /\ [](/\ wfh = "true" <=> probes.seen200
          /\ pc = "wfh_ret" <=> wfh # "none"
          /\ pc = "wfh_probe" => elapsed < max_wait
          /\ wfh = "false" => elapsed >= max_wait
          /\ probes.last \in FailedOutcomes => pc = "wfh_sleep")
    /\ [][/\ pc = "wfh_sleep" => (elapsed' = elapsed + 300 /\ pc' = "wfh_test")
          /\ (pc = "wfh_test" /\ elapsed < max_wait) => pc' = "wfh_probe"]_vars

C7_Witness ==
    /\ pc = "wfh_ret"
    /\ wfh = "true"
    /\ probes.n = 3
    /\ elapsed = 2 * StepMs

(* C8: against an endpoint that never answers 200, wait_for_health returns  *)
(* false at a real time within one 300 ms interval of max_wait, whatever     *)
(* time the probe requests took.                                             *)
C8_TimeoutWithinOneInterval ==
    (pc = "wfh_ret" /\ wfh = "false") =>
        /\ Clock >= max_wait - StepMs
        /\ Clock <= max_wait + StepMs

CeilDiv(a, b) == (a + b - 1) \div b

Sleeps == elapsed \div StepMs

(* C19: with every probe request returning, wait_for_health returns; it    *)
(* issues a probe before each sleep, the first one before any sleep, never  *)
(* more than ceil(max_wait / 300 ms) of them, which is 234 for the 70 s     *)
(* that start_backend passes, and with max_wait = 0 it issues none and      *)
(* returns false.                                                           *)
C19_Terminates ==
    /\ <>(pc = "wfh_ret")
    /\ [](/\ Sleeps <= probes.n
          /\ probes.n <= CeilDiv(max_wait, 300)
          /\ max_wait = 70 * 1000 => probes.n <= 234
          /\ max_wait = 0 => probes.n = 0
          /\ (max_wait = 0 /\ pc = "wfh_ret") => wfh = "false")

C19_Witness ==
    /\ pc = "wfh_ret"
    /\ wfh = "false"
    /\ max_wait = StartupWaitSecs * 1000
    /\ probes.n = 234
    /\ Sleeps = 234

-----------------------------------------------------------------------------
(* Properties of resolve_backend_command (SpecResolve) *)

WithoutOverride(e) == [e EXCEPT !.vars["SEEKJOB_BACKEND_BIN"] = NoVar]

(* C9: with SEEKJOB_BACKEND_BIN set to an existing path the result is that  *)
(* path with no arguments, whatever else the environment holds; with it set  *)
(* to a missing path the result is the one the same environment gives with   *)
(* the variable unset.                                                       *)
C9_OverridePriority ==
    LET bin == env.vars["SEEKJOB_BACKEND_BIN"]
    IN  pc = "resolved" =>
            /\ (bin # NoVar /\ Exists(env.files, bin)) =>
                   resolved = Ok("override", bin, <<>>)
            /\ (bin # NoVar /\ ~Exists(env.files, bin)) =>
                   /\ resolved.via # "override"
                   /\ resolved \in
                        {ResolveBackendCommand(WithoutOverride(env), f) :
                            f \in FindBackendRecursive(env.files, env.unreadable,
                                                       ResourceDir, MaxDepth)}

C9_Witness ==
    /\ pc = "resolved"
    /\ resolved = Ok("override", OverrideBin, <<>>)
    /\ DevMatches(env)
    /\ ~env.resource_dir_ok
    /\ Exists(env.files, Join(ResourceDir, <<BACKEND_BIN_NAME>>))

(* the fixed candidates in the order the specification lists them *)
FixedOrder ==
    << <<BACKEND_BIN_NAME>>,
       <<"backend", "dist", BACKEND_BIN_NAME>>,
       <<"backend", BACKEND_BIN_NAME>>,
       <<"_up_", "backend", "dist", BACKEND_BIN_NAME>>,
       <<"_up_", "_up_", "backend", "dist", BACKEND_BIN_NAME>> >>

(* files with the binary's name at most MaxDepth directories below the resource directory *)
WithinDepth(e) ==
    {f \in e.files : /\ IsProperPrefix(ResourceDir, f)
                     /\ Last(f) = BACKEND_BIN_NAME
                     /\ Len(f) - Len(ResourceDir) - 1 <= MaxDepth}

(* strategy 1 the override, 2 the development pair, 3..7 the fixed candidates, 8 the search *)
StrategyMatches(e, k) ==
    LET bin == e.vars["SEEKJOB_BACKEND_BIN"]
        py == e.vars["SEEKJOB_BACKEND_DEV_PYTHON"]
        script == e.vars["SEEKJOB_BACKEND_DEV_SCRIPT"]
    IN  CASE k = 1 -> bin # NoVar /\ Exists(e.files, bin)
          [] k = 2 -> /\ e.debug
                      /\ py # NoVar /\ Exists(e.files, py)
                      /\ script # NoVar /\ Exists(e.files, script)
          [] k \in 3..7 -> /\ e.resource_dir_ok
                           /\ Exists(e.files, Join(ResourceDir, FixedOrder[k - 2]))
          [] OTHER -> e.resource_dir_ok /\ WithinDepth(e) # {}

StrategyResult(e, k, r) ==
    CASE k = 1 -> r = Ok("override", e.vars["SEEKJOB_BACKEND_BIN"], <<>>)
      [] k = 2 -> r = Ok("dev", e.vars["SEEKJOB_BACKEND_DEV_PYTHON"],
                         <<ToStringLossy(e.vars["SEEKJOB_BACKEND_DEV_SCRIPT"])>>)
      [] k \in 3..7 -> r = Ok("candidate", Join(ResourceDir, FixedOrder[k - 2]), <<>>)
      [] OTHER -> /\ r.ok /\ r.via = "recursive" /\ r.args = <<>>
                  /\ r.program \in WithinDepth(e)

(* C10: the result of resolve_backend_command is that of the first strategy *)
(* that matches, in the order override, development pair (debug builds, both *)
(* paths existing), the five fixed candidates in their listed order, the     *)
(* recursive search; it is an error only when no strategy matches.           *)
C10_PriorityOrder ==
    pc = "resolved" =>
        LET matching == {k \in 1..8 : StrategyMatches(env, k)}
        IN  IF matching = {}
               THEN ~resolved.ok
               ELSE StrategyResult(env, CHOOSE k \in matching : \A j \in matching : k <= j,
                                   resolved)

C10_Witness ==
    /\ pc = "resolved"
    /\ resolved = Ok("candidate", Join(ResourceDir, FixedOrder[2]), <<>>)
    /\ Exists(env.files, Join(ResourceDir, FixedOrder[3]))
    /\ Exists(env.files, Join(ResourceDir, FixedOrder[5]))
    /\ Exists(env.files, Join(ResourceDir, Nested(3)))
    /\ env.vars["SEEKJOB_BACKEND_BIN"] # NoVar

-----------------------------------------------------------------------------
(* Properties of the recursive search (SpecResolve) *)

(* how many directories below the resource directory the directory of f lies *)
LevelsBelow(f) == Len(f) - Len(ResourceDir) - 1

NoFixedMatch(e) == e.resource_dir_ok /\ \A k \in 1..7 : ~StrategyMatches(e, k)

BinariesBelow(e) ==
    {f \in e.files : IsProperPrefix(ResourceDir, f) /\ Last(f) = BACKEND_BIN_NAME}

(* C11: with nothing at the override, development and fixed candidate      *)
(* paths, a binary three directories below the resource directory is found, *)
(* one seven directories below is not, and no result of the search lies in  *)
(* a directory more than 6 levels below the resource directory.             *)
C11_DepthBound ==
    (pc = "resolved" /\ NoFixedMatch(env)) =>
        /\ BinariesBelow(env) = {Join(ResourceDir, Nested(3))} =>
               resolved = Ok("recursive", Join(ResourceDir, Nested(3)), <<>>)
        /\ BinariesBelow(env) = {Join(ResourceDir, Nested(7))} => ~resolved.ok
        /\ (\A f \in BinariesBelow(env) : LevelsBelow(f) > 6) => ~resolved.ok
        /\ resolved.ok => LevelsBelow(resolved.program) <= 6

C11_Witness ==
    /\ pc = "resolved"
    /\ NoFixedMatch(env)
    /\ BinariesBelow(env) = {Join(ResourceDir, Nested(7))}
    /\ ~resolved.ok

(* the directories from the resource directory down to, not including, the directory of f *)
DirsAbove(f) ==
    {SubSeq(f, 1, n) : n \in Len(ResourceDir)..(Len(f) - 2)}

(* C12: a result of the recursive search has no file named seekjob-backend  *)
(* directly in any directory above its own: such a file is returned before  *)
(* the subdirectories of its directory are entered.                         *)
C12_FilesBeforeSubdirs ==
    (pc = "resolved" /\ resolved.via = "recursive") =>
        \A dir \in DirsAbove(resolved.program) :
            ~IsFile(env.files, Join(dir, <<BACKEND_BIN_NAME>>))

C12_Witness ==
    /\ pc = "resolved"
    /\ resolved = Ok("recursive", Join(ResourceDir, Nested(3)), <<>>)
    /\ IsFile(env.files, Join(ResourceDir, Nested(6)))
    /\ IsFile(env.files, Join(ResourceDir, <<"e", BACKEND_BIN_NAME>>))

-----------------------------------------------------------------------------
(* Properties of the host, continued (Spec) *)

InTrail(step) == \E i \in 1..Len(trail) : trail[i] = step

NotFound ==
    <<"Embedded backend binary not found under", ResourceDir,
      "Expected file name", BACKEND_BIN_NAME>>

(* C13: when the resource directory resolves and neither the override, the *)
(* development pair, a fixed candidate nor a file within the depth bound    *)
(* matches, resolve_backend_command returns the not-found error naming the  *)
(* resource directory and the file name, and start_backend returns that     *)
(* error with no process spawned.                                           *)
C13_NotFoundNoSpawn ==
    (/\ pc = "resolved" \/ InTrail("resolve_backend")
     /\ env.resource_dir_ok
     /\ \A k \in 1..8 : ~StrategyMatches(env, k)) =>
        /\ resolved = Err(NotFound)
        /\ pc # "resolved" =>
              /\ ret = RetErr(NotFound)
              /\ ~InTrail("spawn")
              /\ ~Spawned
              /\ proc = "none"

C13_Witness ==
    /\ pc = "run"
    /\ ret = RetErr(NotFound)
    /\ env.files = {}
    /\ proc = "none"
    /\ state.managed

StartOrder ==
    <<"resolve_data_dir", "create_data_dir", "create_logs_dir", "reserve_port",
      "resolve_backend", "open_stdout", "open_stderr", "spawn", "wait_for_health", "kill">>

(* the error start_backend returns when the given step fails *)
ErrorOf(step) ==
    CASE step = "resolve_data_dir" -> <<"Cannot resolve app data dir">>
      [] step = "create_data_dir" -> <<"Cannot create app data dir">>
      [] step = "create_logs_dir" -> <<"Cannot create logs dir">>
      [] step = "reserve_port" -> <<"Cannot reserve local port">>
      [] step = "resolve_backend" -> resolved.err
      [] step = "open_stdout" -> <<"Cannot open backend stdout log">>
      [] step = "open_stderr" -> <<"Cannot open backend stderr log">>
      [] step = "spawn" -> <<"Cannot spawn backend process", resolved.program>>
      [] OTHER -> ReadinessTimeout.err

(* C14: the steps of start_backend are taken in the order data directory,  *)
(* logs directory, port, backend command, stdout log, stderr log, spawn;    *)
(* when the spawn is reached each of them has succeeded; a step that fails  *)
(* is the last one taken, start_backend returns its error, and no process   *)
(* has been spawned.                                                        *)
C14_SpawnAfterSetup ==
    /\ Len(trail) <= Len(StartOrder)
    /\ trail = SubSeq(StartOrder, 1, Len(trail))
    /\ (pc = "sb_spawn" \/ InTrail("spawn")) =>
          /\ sb.data_dir # None
          /\ sb.made = {sb.data_dir, Join(sb.data_dir, <<"logs">>)}
          /\ sb.port \in Ports
          /\ resolved.ok
          /\ sb.sinks = {Join(sb.logs_dir, <<"backend.stdout.log">>),
                         Join(sb.logs_dir, <<"backend.stderr.log">>)}
    /\ proc # "none" => InTrail("spawn")
    /\ (ret.returned /\ ~ret.ok) =>
          /\ ret.err = ErrorOf(trail[Len(trail)])
          /\ ~InTrail("kill") => (proc = "none" /\ ~Spawned)

C14_Witness ==
    /\ ret = RetErr(<<"Cannot open backend stderr log">>)
    /\ trail = SubSeq(StartOrder, 1, 7)
    /\ proc = "none"
    /\ pc = "run"

Count(step) == Cardinality({i \in 1..Len(trail) : trail[i] = step})

(* C15: start_backend is entered at most once and attempts at most one     *)
(* spawn in the lifetime of the host; after it has returned, with a spawn   *)
(* error, a readiness timeout or anything else, no step of it is taken      *)
(* again; a child process exists only through that one spawn.               *)
C15_SingleSpawn ==
    /\ Count("resolve_data_dir") <= 1
    /\ Count("spawn") <= 1
    /\ proc # "none" => (Count("spawn") = 1 /\ Spawned)
    /\ ret.returned => pc \in {"setup_match", "run"}
    /\ pc = "run" => ret.returned

C15_Witness ==
    /\ pc = "run"
    /\ exits >= 1
    /\ ret = RetErr(<<"Cannot spawn backend process", resolved.program>>)
    /\ Count("spawn") = 1
    /\ proc = "none"

ResourceDirError == RetErr(<<"Cannot resolve Tauri resources dir">>)

(* C16, as claimed: a failure to resolve the resource directory is not     *)
(* recovered from, the host does not go on to run with a managed state.     *)
C16_ResourceDirAborts ==
    ret = ResourceDirError => ~(pc = "run" /\ state.managed)

(* C16, amended: no failure of start_backend is treated as non-recoverable; *)
(* after every one of them, a failure to resolve the resource directory     *)
(* included, the setup hook manages a state without child and the host runs. *)
C16_EveryFailureRecovered ==
    [][(pc = "setup_match" /\ ~ret.ok) =>
          (pc' = "run" /\ state'.managed /\ state'.child = "None")]_vars

C16_Witness ==
    /\ pc = "run"
    /\ ret = ResourceDirError
    /\ state.managed
    /\ state.api_base = PlaceholderApiBase
    /\ exits = 0

(* C20: the managed child handle is Some only after start_backend returned *)
(* Ok, which it does only after a probe saw status 200; after a failed      *)
(* wait_for_health the handle is None; and a managed handle that is None    *)
(* stays None.                                                              *)
C20_HandleOnlyAfterSuccess ==
    /\ [](state.child = "Some" =>
             (state.managed /\ ret.ok /\ wfh = "true" /\ probes.seen200))
    /\ [](wfh = "false" => state.child = "None")
    /\ [][(state.managed /\ state.child = "None") => state'.child = "None"]_vars

C20_Witness ==
    /\ pc = "run"
    /\ state.child = "Some"
    /\ probes.n >= 2
    /\ probes.seen200

PortIn(url) == url[2]

(* C18: when start_backend has returned Ok, the port in the returned        *)
(* api_base, the one given to the child as SEEKJOB_PORT, the one given as   *)
(* PORT and the one in the probed health URL are all the port reserve_port  *)
(* returned, which is not 0; a managed state whose api_base carries port 0  *)
(* is the fallback state of a failed start.                                 *)
C18_OnePortEverywhere ==
    /\ ret.ok =>
          /\ sb.port \in Ports
          /\ ret.state.api_base = <<"http://127.0.0.1:", sb.port, "/api">>
          /\ sb.child_env.SEEKJOB_PORT = U16ToString(sb.port)
          /\ sb.child_env.PORT = U16ToString(sb.port)
          /\ probes.n >= 1
          /\ probes.url = <<<<"http://127.0.0.1:", sb.port, "/api">>, "/health">>
    /\ (state.managed /\ PortIn(state.api_base) = 0) =>
          (ret.returned /\ ~ret.ok /\ state.child = "None")
    /\ (state.managed /\ ret.ok) => PortIn(state.api_base) = sb.port

C18_Witness ==
    /\ pc = "run"
    /\ ret.ok
    /\ sb.port = MaxPort
    /\ PortIn(state.api_base) = MaxPort
    /\ probes.url = HealthUrl(ApiBase(MaxPort))

-----------------------------------------------------------------------------
(* Properties of concurrent stop_backend calls (SpecStop) *)

InCriticalSection(t) == tpc[t] \in {"locked", "killed", "cleared"}

(* C17: a context reads the handle, kills and clears only while it holds   *)
(* the lock, no two contexts are between lock and unlock at once, the child *)
(* gets at most one kill under every interleaving, and once any call has    *)
(* finished the handle is None.                                             *)
C17_StopUnderLock ==
    /\ \A t \in Stoppers : InCriticalSection(t) => mutex = t
    /\ \A t \in Stoppers, u \in Stoppers :
          (InCriticalSection(t) /\ InCriticalSection(u)) => t = u
    /\ Len(kills) <= 1
    /\ (\E t \in Stoppers : tpc[t] = "done") => state.child = "None"

C17_Witness ==
    /\ \A t \in Stoppers : tpc[t] = "done"
    /\ kills = <<"stop_backend">>
    /\ proc = "killed"
    /\ state.child = "None"

=============================================================================
